---- MODULE Spec2Model ----
(***************************************************************************)
(* Turtle's Adventure (src/turtle_adventure.py): the entity update,        *)
(* collision and spawn-scheduling core, as a state machine.                *)
(*                                                                         *)
(* Positions are kept on the integer grid.  The two Euclidean moves of the *)
(* program (Player.update through the turtle, ChasingEnemy.update) are     *)
(* floating point in the source; here each component of the step is the    *)
(* exact value rounded to the nearest integer, which is the exact value    *)
(* whenever the move is along an axis.                                     *)
(*                                                                         *)
(* gamelib (Game, GameElement) is imported by the source but is not part   *)
(* of it: after/stop/start/add_element and the tick loop are modelled from *)
(* the specification (sections 4.5 and 5).                                 *)
(***************************************************************************)
EXTENDS Integers, Sequences, FiniteSets, TLC

VARIABLES
    screen_width,   \* TurtleAdventureGame.screen_width
    screen_height,  \* TurtleAdventureGame.screen_height
    now,            \* the event loop's clock, in ms
    timers,         \* pending after() callbacks: records [at, cb, seq]
    armed,          \* number of after() calls so far (orders timers due together)
    is_started,     \* the tick loop runs (Game.start / Game.stop)
    banners,        \* the texts drawn by game_over_win / game_over_lose, in order
    player,         \* [x, y]
    waypoint,       \* [x, y, active]
    elements,       \* the enemies under the update/render cycle, in add_element order
    enemies,        \* TurtleAdventureGame.enemies: the ids appended by add_enemy
    created,        \* number of enemy objects constructed so far (next id - 1)
    ticks,          \* number of ticks the loop has run
    clicks,         \* number of pointer clicks so far
    placing         \* create_fencing_enemy's position when it is run step by step:
                    \* [i, e, rerolled], i = 0 before the callback, i in 1..15
                    \* while enemy i (e = <<it>>) is being placed, 16 once returned

vars == <<screen_width, screen_height, now, timers, armed, is_started, banners,
          player, waypoint, elements, enemies, created, ticks, clicks, placing>>

----------------------------------------------------------------------------
(* Program constants.                                                      *)

HomeSize == 20
HomeInset == 100
PlayerStartX == 50
PlayerSpeed == 5
EnemySize == 20
WalkSpeed == 3
WalkMaxX == 700
WalkMaxY == 400
ChaseSpeed == 4
FenceSpeed == 4
SquareSize == 80
MaxDistanceFromHome == 25
NumFencing == 15
NumTeleporting == 5
TeleportCooldown == 60
TeleportRange == 200
GuardCoord == 100
RandomDelay == 1000
ChasingDelay == 2000
FencingDelay == 3000
TeleportingDelay == 4000
RandomPeriod == 1000
ChasingPeriod == 1000
TeleportingPeriod == 500

(* The position GameElement gives an element constructed without one.      *)
DefaultX == 0
DefaultY == 0

----------------------------------------------------------------------------
(* Bounds of the model.                                                    *)

MaxTime == 4000        \* the session is explored up to this simulated time
MaxClicks == 1         \* pointer clicks per run
EnemyMaxTime == 200    \* horizon of the single-enemy specification
FenceMaxTime == 15000  \* horizon of the fencing-chain specification
PlayerMaxTime == 1000  \* horizon of the player specification
NearSpan == 12         \* single-enemy starts lie within this distance of the player
TickMs == 100          \* the frame interval of the tick loop, in ms
RerollMaxTime == 3500  \* horizon of the step-by-step fencing specification
LiveMaxTime == 2000    \* horizon of the liveness specification
MaxAdded == 2          \* enemies a caller constructs in the size specification
ClickMaxTime == 300    \* clicks of the bounded-click specifications come this early
TeleportMaxTime == 12500  \* horizon of the teleporting specification
ScheduleMaxTime == 6000  \* horizon of the schedule specification

----------------------------------------------------------------------------
(* Home.                                                                    *)

home_x == screen_width - HomeInset
home_y == screen_height \div 2

(* Home.contains over the whole placement range of the fencing enemies     *)
contains_placement_range(x, y) ==
    /\ home_x - MaxDistanceFromHome <= x
    /\ x <= home_x + MaxDistanceFromHome
    /\ home_y - MaxDistanceFromHome <= y
    /\ y <= home_y + MaxDistanceFromHome

(* Home.contains with the boundary left out                                *)
contains_strict(x, y) ==
    /\ 2 * home_x - HomeSize < 2 * x
    /\ 2 * x < 2 * home_x + HomeSize
    /\ 2 * home_y - HomeSize < 2 * y
    /\ 2 * y < 2 * home_y + HomeSize

(* Home.contains: boundaries inclusive.  Coordinates are doubled so that   *)
(* size/2 stays exact.                                                     *)
contains(x, y) ==
    /\ 2 * home_x - HomeSize <= 2 * x
    /\ 2 * x <= 2 * home_x + HomeSize
    /\ 2 * home_y - HomeSize <= 2 * y
    /\ 2 * y <= 2 * home_y + HomeSize

----------------------------------------------------------------------------
(* Geometry.                                                                *)

Abs(n) == IF n < 0 THEN -n ELSE n
Sign(n) == IF n < 0 THEN -1 ELSE IF n > 0 THEN 1 ELSE 0

Dist2(x1, y1, x2, y2) == (x2 - x1) * (x2 - x1) + (y2 - y1) * (y2 - y1)

(* speed * c / sqrt(d2), rounded to the nearest integer (c is one component *)
(* of a vector of squared length d2 > 0).                                   *)
StepComp(c, d2, speed) ==
    LET M == {m \in 0..speed :
                 m = 0 \/ (2 * m - 1) * (2 * m - 1) * d2 <= 4 * speed * speed * c * c}
        k == CHOOSE m \in M : \A n \in M : n <= m
    IN  Sign(c) * k

----------------------------------------------------------------------------
(* Session operations that run inside a tick work on the part of the state *)
(* a tick can change: s = [started, timers, banners, player, waypoint].    *)

(* Game.stop: halts the tick loop and cancels every pending timer.         *)
stop(s) == [s EXCEPT !.started = FALSE, !.timers = {}]

game_over_win(s) == [stop(s) EXCEPT !.banners = Append(@, "You Win")]

(* game_over_lose without its self.stop()                                  *)
game_over_lose_no_stop(s) == [s EXCEPT !.banners = Append(@, "You Lose")]

game_over_lose(s) == [stop(s) EXCEPT !.banners = Append(@, "You Lose")]

(* Enemy.hits_player with the boundary counted as a hit                    *)
hits_player_inclusive(e, p) ==
    /\ 2 * e.x - e.size <= 2 * p.x
    /\ 2 * p.x <= 2 * e.x + e.size
    /\ 2 * e.y - e.size <= 2 * p.y
    /\ 2 * p.y <= 2 * e.y + e.size

(* Enemy.hits_player: strict on both axes.                                 *)
hits_player(e, p) ==
    /\ 2 * e.x - e.size < 2 * p.x
    /\ 2 * p.x < 2 * e.x + e.size
    /\ 2 * e.y - e.size < 2 * p.y
    /\ 2 * p.y < 2 * e.y + e.size

(* turtle.setheading(turtle.towards(wx, wy)); turtle.forward(speed).        *)
(* towards() of the turtle's own position is heading 0 (east).              *)
forward(p, wx, wy, speed) ==
    LET d2 == Dist2(p.x, p.y, wx, wy)
    IN  IF d2 = 0
        THEN [x |-> p.x + speed, y |-> p.y]
        ELSE [x |-> p.x + StepComp(wx - p.x, d2, speed),
              y |-> p.y + StepComp(wy - p.y, d2, speed)]

(* Player.update with the arrival test made before the move                *)
Player_update_check_first(s) ==
    LET s1 == IF contains(s.player.x, s.player.y) THEN game_over_win(s) ELSE s
    IN  IF s1.waypoint.active
        THEN LET p == forward(s1.player, s1.waypoint.x, s1.waypoint.y, PlayerSpeed)
                 near == Dist2(s1.player.x, s1.player.y, s1.waypoint.x, s1.waypoint.y)
                            < PlayerSpeed * PlayerSpeed
             IN  [s1 EXCEPT !.player = p,
                            !.waypoint.active = IF near THEN FALSE ELSE @]
        ELSE s1

(* Player.update moving toward the waypoint whether or not it is active    *)
Player_update_always_moves(s) ==
    LET s1 == IF contains(s.player.x, s.player.y) THEN game_over_win(s) ELSE s
        p == forward(s1.player, s1.waypoint.x, s1.waypoint.y, PlayerSpeed)
        near == Dist2(p.x, p.y, s1.waypoint.x, s1.waypoint.y)
                   < PlayerSpeed * PlayerSpeed
    IN  [s1 EXCEPT !.player = p,
                   !.waypoint.active = IF near THEN FALSE ELSE @]

(* Player.update comparing the distance left with 0 instead of the speed   *)
Player_update_never_near(s) ==
    LET s1 == IF contains(s.player.x, s.player.y) THEN game_over_win(s) ELSE s
    IN  IF s1.waypoint.active
        THEN LET p == forward(s1.player, s1.waypoint.x, s1.waypoint.y, PlayerSpeed)
                 near == Dist2(p.x, p.y, s1.waypoint.x, s1.waypoint.y) < 0
             IN  [s1 EXCEPT !.player = p,
                            !.waypoint.active = IF near THEN FALSE ELSE @]
        ELSE s1

(* Player.update                                                            *)
Player_update(s) ==
    LET s1 == IF contains(s.player.x, s.player.y) THEN game_over_win(s) ELSE s
    IN  IF s1.waypoint.active
        THEN LET p == forward(s1.player, s1.waypoint.x, s1.waypoint.y, PlayerSpeed)
                 near == Dist2(p.x, p.y, s1.waypoint.x, s1.waypoint.y)
                            < PlayerSpeed * PlayerSpeed
             IN  [s1 EXCEPT !.player = p,
                            !.waypoint.active = IF near THEN FALSE ELSE @]
        ELSE s1

----------------------------------------------------------------------------
(* Enemies.  One record shape for every variant; a variant uses the fields *)
(* it has in the source: dx, dy (RandomWalkEnemy), direction               *)
(* (FencingEnemy), counter (TeleportingEnemy).  rx and ry are history      *)
(* fields: the last update of a RandomWalkEnemy negated a non-zero dx, dy. *)

Kinds == {"demo", "random", "chasing", "fencing", "teleporting"}
Directions == {"up", "down", "left", "right"}

(* Enemy.__init__ through the variant's __init__: a fresh enemy at the     *)
(* element's default position.                                             *)
NewEnemy(id, kind, size) ==
    [id |-> id, kind |-> kind, size |-> size, x |-> DefaultX, y |-> DefaultY,
     dx |-> 0, dy |-> 0, direction |-> "right", counter |-> 0,
     rx |-> FALSE, ry |-> FALSE]

(* if self.hits_player(): self.game.game_over_lose()                       *)
HitCheck(e, s) ==
    [e |-> e, s |-> IF hits_player(e, s.player) THEN game_over_lose(s) ELSE s]

(* DemoEnemy.update                                                        *)
DemoEnemy_update(e, s) ==
    HitCheck([e EXCEPT !.x = @ + 1, !.y = @ + 1], s)

(* RandomWalkEnemy.__choose_random_direction                               *)
choose_random_direction(e, direction) ==
    CASE direction = "up"    -> [e EXCEPT !.dx = 0, !.dy = WalkSpeed]
      [] direction = "down"  -> [e EXCEPT !.dx = 0, !.dy = -WalkSpeed]
      [] direction = "left"  -> [e EXCEPT !.dx = -WalkSpeed, !.dy = 0]
      [] OTHER               -> [e EXCEPT !.dx = WalkSpeed, !.dy = 0]

(* RandomWalkEnemy.update                                                  *)
RandomWalkEnemy_update(e, s) ==
    LET x1 == e.x + e.dx
        y1 == e.y + e.dy
        dx1 == IF 2 * x1 + e.size >= 2 * screen_width THEN -e.dx
               ELSE IF 2 * x1 - e.size <= 0 THEN -e.dx
               ELSE e.dx
        dy1 == IF 2 * y1 + e.size >= 2 * screen_height THEN -e.dy
               ELSE IF 2 * y1 - e.size <= 0 THEN -e.dy
               ELSE e.dy
    IN  HitCheck([e EXCEPT !.x = x1, !.y = y1, !.dx = dx1, !.dy = dy1,
                           !.rx = (dx1 # e.dx), !.ry = (dy1 # e.dy)], s)

(* ChasingEnemy.update returning at once when it stands on the player      *)
ChasingEnemy_update_skip_when_coincident(e, s) ==
    LET dx == s.player.x - e.x
        dy == s.player.y - e.y
        d2 == dx * dx + dy * dy
    IN  IF d2 > 0
        THEN HitCheck([e EXCEPT !.x = @ + StepComp(dx, d2, ChaseSpeed),
                                !.y = @ + StepComp(dy, d2, ChaseSpeed)], s)
        ELSE [e |-> e, s |-> s]

(* ChasingEnemy.update                                                     *)
ChasingEnemy_update(e, s) ==
    LET dx == s.player.x - e.x
        dy == s.player.y - e.y
        d2 == dx * dx + dy * dy
        e1 == IF d2 > 0
              THEN [e EXCEPT !.x = @ + StepComp(dx, d2, ChaseSpeed),
                             !.y = @ + StepComp(dy, d2, ChaseSpeed)]
              ELSE e
    IN  HitCheck(e1, s)

(* FencingEnemy.update turning at a side without clamping to it            *)
FencingEnemy_update_no_clamp(e, s) ==
    LET square_left == home_x - SquareSize \div 2
        square_right == home_x + SquareSize \div 2
        square_top == home_y - SquareSize \div 2
        square_bottom == home_y + SquareSize \div 2
        e1 == CASE e.direction = "right" ->
                     [e EXCEPT !.x = @ + FenceSpeed,
                               !.direction = IF e.x + FenceSpeed >= square_right
                                             THEN "down" ELSE @]
                [] e.direction = "down" ->
                     [e EXCEPT !.y = @ + FenceSpeed,
                               !.direction = IF e.y + FenceSpeed >= square_bottom
                                             THEN "left" ELSE @]
                [] e.direction = "left" ->
                     [e EXCEPT !.x = @ - FenceSpeed,
                               !.direction = IF e.x - FenceSpeed <= square_left
                                             THEN "up" ELSE @]
                [] e.direction = "up" ->
                     [e EXCEPT !.y = @ - FenceSpeed,
                               !.direction = IF e.y - FenceSpeed <= square_top
                                             THEN "right" ELSE @]
                [] OTHER -> e
    IN  HitCheck(e1, s)

(* FencingEnemy.update.  square_size / 2 is exact (80 / 2).                *)
FencingEnemy_update(e, s) ==
    LET square_left == home_x - SquareSize \div 2
        square_right == home_x + SquareSize \div 2
        square_top == home_y - SquareSize \div 2
        square_bottom == home_y + SquareSize \div 2
        e1 == CASE e.direction = "right" ->
                     IF e.x + FenceSpeed >= square_right
                     THEN [e EXCEPT !.x = square_right, !.direction = "down"]
                     ELSE [e EXCEPT !.x = @ + FenceSpeed]
                [] e.direction = "down" ->
                     IF e.y + FenceSpeed >= square_bottom
                     THEN [e EXCEPT !.y = square_bottom, !.direction = "left"]
                     ELSE [e EXCEPT !.y = @ + FenceSpeed]
                [] e.direction = "left" ->
                     IF e.x - FenceSpeed <= square_left
                     THEN [e EXCEPT !.x = square_left, !.direction = "up"]
                     ELSE [e EXCEPT !.x = @ - FenceSpeed]
                [] e.direction = "up" ->
                     IF e.y - FenceSpeed <= square_top
                     THEN [e EXCEPT !.y = square_top, !.direction = "right"]
                     ELSE [e EXCEPT !.y = @ - FenceSpeed]
                [] OTHER -> e
    IN  HitCheck(e1, s)

(* TeleportingEnemy.teleport: d = [choice, ox, oy] are the three random    *)
(* draws (random.choice and two random.randint(-200, 200)).                *)
teleport(e, s, d) ==
    IF d.choice = "player"
    THEN [e EXCEPT !.x = s.player.x + d.ox, !.y = s.player.y + d.oy]
    ELSE [e EXCEPT !.x = home_x + d.ox, !.y = home_y + d.oy]

(* TeleportingEnemy.update teleporting only once the counter exceeds the   *)
(* cooldown                                                                *)
TeleportingEnemy_update_late(e, s, d) ==
    LET c == e.counter + 1
        e1 == IF c > TeleportCooldown
              THEN [teleport(e, s, d) EXCEPT !.counter = 0]
              ELSE [e EXCEPT !.counter = c]
    IN  HitCheck(e1, s)

(* TeleportingEnemy.update                                                 *)
TeleportingEnemy_update(e, s, d) ==
    LET c == e.counter + 1
        e1 == IF c >= TeleportCooldown
              THEN [teleport(e, s, d) EXCEPT !.counter = 0]
              ELSE [e EXCEPT !.counter = c]
    IN  HitCheck(e1, s)

(* The variant's update(), by dynamic dispatch.                            *)
Enemy_update(e, s, d) ==
    CASE e.kind = "demo"        -> DemoEnemy_update(e, s)
      [] e.kind = "random"      -> RandomWalkEnemy_update(e, s)
      [] e.kind = "chasing"     -> ChasingEnemy_update(e, s)
      [] e.kind = "fencing"     -> FencingEnemy_update(e, s)
      [] OTHER                  -> TeleportingEnemy_update(e, s, d)

----------------------------------------------------------------------------
(* The tick: Game.update runs update() of every element in add_element     *)
(* order (waypoint and home do nothing, then the player, then the enemies).*)
(* tape[i] holds the random draws element i uses if it teleports.          *)

RECURSIVE UpdateAll(_, _, _, _)
UpdateAll(els, i, s, tape) ==
    IF i > Len(els)
    THEN [elements |-> els, s |-> s]
    ELSE LET r == Enemy_update(els[i], s, IF i \in DOMAIN tape THEN tape[i] ELSE <<>>)
         IN  UpdateAll([els EXCEPT ![i] = r.e], i + 1, r.s, tape)

(* The elements whose next update teleports.                               *)
TeleportsNext ==
    {i \in 1..Len(elements) :
        elements[i].kind = "teleporting" /\ elements[i].counter + 1 >= TeleportCooldown}

----------------------------------------------------------------------------
(* The event loop: after(delay, cb) arms a timer; the loop runs the        *)
(* pending callback with the least fire time, and of those due together    *)
(* the one armed first.                                                    *)

after(T, base, delay, cb, seq) ==
    T \cup {[at |-> base + delay, cb |-> cb, seq |-> seq]}

Due(t, cb, limit) ==
    /\ t \in timers
    /\ t.cb = cb
    /\ t.at <= limit
    /\ \A u \in timers : t.at < u.at \/ (t.at = u.at /\ t.seq <= u.seq)

(* Game.add_element / TurtleAdventureGame.add_enemy on                     *)
(* g = [elements, enemies, created].                                       *)
add_element(g, e) == [g EXCEPT !.elements = Append(@, e)]

(* add_enemy inserting at the front of `enemies`                           *)
add_enemy_front(g, e) == add_element([g EXCEPT !.enemies = <<e.id>> \o @], e)

add_enemy(g, e) == add_element([g EXCEPT !.enemies = Append(@, e.id)], e)

----------------------------------------------------------------------------
(* Random draws.  Every action that draws takes the set of draws it may    *)
(* make; the guards keep each draw inside the range random.randint gives.  *)

InRange(v, lo, hi) == lo <= v /\ v <= hi

(* create_random_enemy: body of the callback, d = [x, y, direction].       *)
create_random_enemy(g, d) ==
    LET e0 == NewEnemy(g.created + 1, "random", EnemySize)
        e1 == IF e0.x # GuardCoord /\ e0.y # GuardCoord
              THEN [e0 EXCEPT !.x = d.x, !.y = d.y]
              ELSE e0
    IN  add_element([g EXCEPT !.created = @ + 1],
                    choose_random_direction(e1, d.direction))

(* create_chasing_enemy: d = [x, y].                                       *)
create_chasing_enemy(g, d) ==
    LET e0 == NewEnemy(g.created + 1, "chasing", EnemySize)
    IN  add_enemy([g EXCEPT !.created = @ + 1], [e0 EXCEPT !.x = d.x, !.y = d.y])

(* create_fencing_enemy: tape is the sequence of (x, y) draws the callback *)
(* consumes.  The result has ok = FALSE when the tape ends while the       *)
(* re-roll loop still wants a draw, or is not used up.                     *)
(* the placement without the re-roll loop                                  *)
Reroll_skipped(e, tape) == [e |-> e, tape |-> tape, ok |-> TRUE]

RECURSIVE Reroll(_, _)
Reroll(e, tape) ==
    IF contains(e.x, e.y)
    THEN IF tape = <<>>
         THEN [e |-> e, tape |-> tape, ok |-> FALSE]
         ELSE Reroll([e EXCEPT !.x = Head(tape).x, !.y = Head(tape).y], Tail(tape))
    ELSE [e |-> e, tape |-> tape, ok |-> TRUE]

RECURSIVE create_fencing_enemy(_, _, _)
create_fencing_enemy(g, tape, i) ==
    IF i > NumFencing
    THEN [g |-> g, ok |-> tape = <<>>]
    ELSE LET e0 == NewEnemy(g.created + 1, "fencing", EnemySize)
             first == e0.x # home_x /\ e0.y # home_y
         IN  IF first /\ tape = <<>>
             THEN [g |-> g, ok |-> FALSE]
             ELSE LET e1 == IF first
                            THEN [e0 EXCEPT !.x = Head(tape).x, !.y = Head(tape).y]
                            ELSE e0
                      r == Reroll(e1, IF first THEN Tail(tape) ELSE tape)
                  IN  IF r.ok
                      THEN create_fencing_enemy(
                               add_enemy([g EXCEPT !.created = @ + 1], r.e), r.tape, i + 1)
                      ELSE [g |-> g, ok |-> FALSE]

(* create_teleporting_enemy: tape is the sequence of five (x, y) draws.    *)
RECURSIVE create_teleporting_enemy(_, _, _)
create_teleporting_enemy(g, tape, i) ==
    IF i > NumTeleporting
    THEN g
    ELSE LET e0 == NewEnemy(g.created + 1, "teleporting", EnemySize)
             e1 == IF e0.x # GuardCoord /\ e0.y # GuardCoord
                   THEN [e0 EXCEPT !.x = tape[i].x, !.y = tape[i].y]
                   ELSE e0
         IN  create_teleporting_enemy(add_enemy([g EXCEPT !.created = @ + 1], e1),
                                      tape, i + 1)

----------------------------------------------------------------------------
(* Init: the session after TurtleAdventureGame.__init__ / init_game and    *)
(* Game.start, in an arena drawn from Arenas, with the timers T armed and  *)
(* with the enemies of one of the sequences in Added already passed to     *)
(* add_enemy (none, in the game as shipped).                               *)

Ids(els) == [i \in DOMAIN els |-> els[i].id]

InitSession(Arenas, T, Added) ==
    /\ \E a \in Arenas : screen_width = a[1] /\ screen_height = a[2]
    /\ now = 0
    /\ timers = T
    /\ armed = Cardinality(T)
    /\ is_started = TRUE
    /\ banners = <<>>
    /\ player = [x |-> PlayerStartX, y |-> screen_height \div 2]
    /\ waypoint = [x |-> DefaultX, y |-> DefaultY, active |-> FALSE]
    /\ elements \in Added
    /\ enemies = Ids(elements)
    /\ created = Len(elements)
    /\ ticks = 0
    /\ clicks = 0
    /\ placing = [i |-> 0, e |-> <<>>, rerolled |-> FALSE]

(* the four chains with the fencing and teleporting delays exchanged       *)
GeneratorTimers_swapped ==
    {[at |-> RandomDelay, cb |-> "random", seq |-> 1],
     [at |-> ChasingDelay, cb |-> "chasing", seq |-> 2],
     [at |-> TeleportingDelay, cb |-> "fencing", seq |-> 3],
     [at |-> FencingDelay, cb |-> "teleporting", seq |-> 4]}

(* EnemyGenerator.__init__ arms the four chains; Game.start arms the tick. *)
GeneratorTimers ==
    {[at |-> RandomDelay, cb |-> "random", seq |-> 1],
     [at |-> ChasingDelay, cb |-> "chasing", seq |-> 2],
     [at |-> FencingDelay, cb |-> "fencing", seq |-> 3],
     [at |-> TeleportingDelay, cb |-> "teleporting", seq |-> 4]}

StartTimers == {[at |-> 0, cb |-> "animate", seq |-> 5]}

----------------------------------------------------------------------------
(* Actions.                                                                *)

(* One tick (Game.animate): every element's update(), then the next tick   *)
(* is armed unless the loop was stopped.                                   *)
Animate(limit, TeleDraws) ==
    \E t \in timers :
      /\ Due(t, "animate", limit)
      /\ \E tape \in [TeleportsNext -> TeleDraws] :
           /\ \A i \in TeleportsNext :
                /\ tape[i].choice \in {"player", "home"}
                /\ InRange(tape[i].ox, -TeleportRange, TeleportRange)
                /\ InRange(tape[i].oy, -TeleportRange, TeleportRange)
           /\ LET s0 == [started |-> is_started, timers |-> timers \ {t},
                         banners |-> banners, player |-> player,
                         waypoint |-> waypoint]
                  r == UpdateAll(elements, 1, Player_update(s0), tape)
              IN  /\ now' = t.at
                  /\ elements' = r.elements
                  /\ is_started' = r.s.started
                  /\ banners' = r.s.banners
                  /\ player' = r.s.player
                  /\ waypoint' = r.s.waypoint
                  /\ timers' = IF r.s.started
                               THEN after(r.s.timers, t.at, TickMs, "animate", armed + 1)
                               ELSE r.s.timers
                  /\ armed' = IF r.s.started THEN armed + 1 ELSE armed
                  /\ ticks' = ticks + 1
      /\ UNCHANGED <<screen_width, screen_height, enemies, created, clicks, placing>>

(* The registry part of the state, and its write-back.                     *)
Registry == [elements |-> elements, enemies |-> enemies, created |-> created]

SetRegistry(g) ==
    /\ elements' = g.elements
    /\ enemies' = g.enemies
    /\ created' = g.created

SpawnFrame ==
    UNCHANGED <<screen_width, screen_height, is_started, banners, player,
                waypoint, ticks, clicks, placing>>

CreateRandomEnemy(limit, Draws) ==
    \E t \in timers :
      /\ Due(t, "random", limit)
      /\ \E d \in Draws :
           /\ InRange(d.x, 0, WalkMaxX) /\ InRange(d.y, 0, WalkMaxY)
           /\ d.direction \in Directions
           /\ SetRegistry(create_random_enemy(Registry, d))
      /\ now' = t.at
      /\ timers' = after(timers \ {t}, t.at, RandomPeriod, "random", armed + 1)
      /\ armed' = armed + 1
      /\ SpawnFrame

CreateChasingEnemy(limit, Draws) ==
    \E t \in timers :
      /\ Due(t, "chasing", limit)
      /\ \E d \in Draws :
           /\ InRange(d.x, 0, screen_width) /\ InRange(d.y, 0, screen_height)
           /\ SetRegistry(create_chasing_enemy(Registry, d))
      /\ now' = t.at
      /\ timers' = after(timers \ {t}, t.at, ChasingPeriod, "chasing", armed + 1)
      /\ armed' = armed + 1
      /\ SpawnFrame

CreateFencingEnemy(limit, Tapes) ==
    \E t \in timers :
      /\ Due(t, "fencing", limit)
      /\ \E tape \in Tapes :
           /\ \A k \in DOMAIN tape :
                /\ InRange(tape[k].x, home_x - MaxDistanceFromHome,
                                      home_x + MaxDistanceFromHome)
                /\ InRange(tape[k].y, home_y - MaxDistanceFromHome,
                                      home_y + MaxDistanceFromHome)
           /\ LET r == create_fencing_enemy(Registry, tape, 1)
              IN  r.ok /\ SetRegistry(r.g)
      /\ now' = t.at
      /\ timers' = timers \ {t}
      /\ armed' = armed
      /\ SpawnFrame

CreateTeleportingEnemy(limit, Tapes) ==
    \E t \in timers :
      /\ Due(t, "teleporting", limit)
      /\ \E tape \in Tapes :
           /\ Len(tape) = NumTeleporting
           /\ \A k \in DOMAIN tape :
                /\ InRange(tape[k].x, 0, screen_width)
                /\ InRange(tape[k].y, 0, screen_height)
           /\ SetRegistry(create_teleporting_enemy(Registry, tape, 1))
      /\ now' = t.at
      /\ timers' = after(timers \ {t}, t.at, TeleportingPeriod, "teleporting",
                          armed + 1)
      /\ armed' = armed + 1
      /\ SpawnFrame

(* <Button-1>: self.waypoint.activate(e.x, e.y)                            *)
Click(Points) ==
    /\ clicks < MaxClicks
    /\ \E p \in Points :
         waypoint' = [x |-> p.x, y |-> p.y, active |-> TRUE]
    /\ clicks' = clicks + 1
    /\ UNCHANGED <<screen_width, screen_height, now, timers, armed, is_started,
                   banners, player, elements, enemies, created, ticks, placing>>

----------------------------------------------------------------------------
(* The session.                                                            *)

Arenas == {<<800, 500>>, <<165, 100>>}

Fill(d, n) == [k \in 1..n |-> d]

Pt(x, y) == [x |-> x, y |-> y]

SessionWalkDraws ==
    {[x |-> 10, y |-> 200, direction |-> "left"],
     [x |-> PlayerStartX + 12, y |-> home_y - 9, direction |-> "left"]}

SessionChaseDraws == {Pt(0, 0), Pt(PlayerStartX, home_y)}

SessionFenceTapes ==
    {Fill(Pt(home_x - 25, home_y), NumFencing),
     <<Pt(home_x, home_y)>> \o Fill(Pt(home_x + 11, home_y - 25), NumFencing)}

SessionTeleTapes == {Fill(Pt(0, 0), NumTeleporting)}

SessionTeleDraws == {[choice |-> "player", ox |-> 0, oy |-> 0]}

SessionClicks == {Pt(home_x, home_y), Pt(PlayerStartX + 3, home_y)}

Init == InitSession(Arenas, StartTimers \cup GeneratorTimers, {<<>>})

Next ==
    \/ Animate(MaxTime, SessionTeleDraws)
    \/ CreateRandomEnemy(MaxTime, SessionWalkDraws)
    \/ CreateChasingEnemy(MaxTime, SessionChaseDraws)
    \/ CreateFencingEnemy(MaxTime, SessionFenceTapes)
    \/ CreateTeleportingEnemy(MaxTime, SessionTeleTapes)
    \/ Click(SessionClicks)

Spec == Init /\ [][Next]_vars

----------------------------------------------------------------------------
(* Vocabulary of the properties.                                           *)

Count(seq, v) == Cardinality({i \in DOMAIN seq : seq[i] = v})

WinCount == Count(banners, "You Win")
LoseCount == Count(banners, "You Lose")

Running == banners = <<>>

OfKind(kind) == {i \in DOMAIN elements : elements[i].kind = kind}

(* The ids in `enemies` that belong to enemies of the given kind.  Ids are *)
(* unique per constructed enemy.                                           *)
EnemiesOfKind(kind) ==
    {k \in DOMAIN enemies :
        \E i \in DOMAIN elements :
            elements[i].id = enemies[k] /\ elements[i].kind = kind}

(* Home's region as the specification states it: a closed square.          *)
InHomeRegion(x, y) ==
    /\ Abs(2 * (x - home_x)) <= HomeSize
    /\ Abs(2 * (y - home_y)) <= HomeSize

(* Simulated time t has fully elapsed: the clock is there and nothing due  *)
(* at or before t is still pending.                                        *)
Elapsed(t) == now >= t /\ \A u \in timers : u.at > t

----------------------------------------------------------------------------
(* C1: once game_over_win or game_over_lose has been invoked the session   *)
(* stays terminal: the two are never both invoked and neither is invoked a *)
(* second time, also not by entities updated later in the same tick.       *)
C1_TerminalOnce == WinCount + LoseCount <= 1

(* C2: after game_over_win or game_over_lose no spawn callback fires       *)
(* again: the registered enemies never grow once the session is terminal.  *)
C2_NoSpawnAfterGameOver ==
    [][~Running =>
          /\ elements' = elements
          /\ enemies' = enemies
          /\ created' = created]_vars

(* C2 witness: a terminal session, reached after spawn chains have fired   *)
(* and with the pointer still live.                                        *)
C2_Witness == ~Running /\ created > 0 /\ clicks > 0

(* C3: a tick that finds the player inside Home's closed region invokes    *)
(* game_over_win in that tick; the win is signalled at most once in a run, *)
(* only by such a tick, and no tick runs after it.                         *)
C3_WinOnce ==
    [][/\ (ticks' = ticks + 1 /\ InHomeRegion(player.x, player.y))
            => WinCount' = 1
       /\ WinCount' # WinCount
            => (ticks' = ticks + 1 /\ InHomeRegion(player.x, player.y))
       /\ WinCount' <= 1
       /\ WinCount >= 1 => (ticks' = ticks /\ banners' = banners)]_vars

(* C3 witness: the win was signalled for a player that stood exactly on    *)
(* Home's boundary when the tick began (it has since advanced one step).   *)
C3_Witness ==
    /\ WinCount = 1
    /\ waypoint.active
    /\ player.x = home_x - HomeSize \div 2 + PlayerSpeed
    /\ player.y = home_y

(* C5: while the session is Running, once 4000 ms have elapsed `enemies`   *)
(* holds at least 1 RandomWalkEnemy, at least 1 ChasingEnemy, 15           *)
(* FencingEnemy and at least 5 TeleportingEnemy, and none of a type before *)
(* that type's first fire time.                                            *)
C5_Schedule ==
    Running =>
      /\ Elapsed(TeleportingDelay) =>
           /\ Cardinality(EnemiesOfKind("random")) >= 1
           /\ Cardinality(EnemiesOfKind("chasing")) >= 1
           /\ Cardinality(EnemiesOfKind("fencing")) = NumFencing
           /\ Cardinality(EnemiesOfKind("teleporting")) >= NumTeleporting
      /\ now < RandomDelay => EnemiesOfKind("random") = {}
      /\ now < ChasingDelay => EnemiesOfKind("chasing") = {}
      /\ now < FencingDelay => EnemiesOfKind("fencing") = {}
      /\ now < TeleportingDelay => EnemiesOfKind("teleporting") = {}

(* C6: every enemy under the update/render cycle is a member of `enemies`, *)
(* exactly once.                                                           *)
C6_Registered ==
    \A i \in DOMAIN elements : Count(enemies, elements[i].id) = 1

(* C9: a RandomWalkEnemy whose update reversed a velocity component does   *)
(* not reverse that component again in its next update.                    *)
C9_ReverseOnce ==
    [][ticks' = ticks + 1 =>
          \A i \in DOMAIN elements :
              elements[i].kind = "random" =>
                  /\ elements[i].rx => ~elements'[i].rx
                  /\ elements[i].ry => ~elements'[i].ry]_vars

----------------------------------------------------------------------------
(* SpecEnemy: one enemy of any variant, handed to add_enemy at a position  *)
(* near the player, and the tick loop; no spawn chain is armed.            *)

EnemyArenas == {<<165, 100>>}

NearOffsets == (-NearSpan)..NearSpan

EnemyStarts ==
    LET At(e, ox, oy) ==
            [e EXCEPT !.x = PlayerStartX + ox, !.y = screen_height \div 2 + oy]
    IN  UNION {
          {At(NewEnemy(1, "demo", size), ox, oy) : size \in {EnemySize, 7}}
          \cup {At(choose_random_direction(NewEnemy(1, "random", EnemySize), d), ox, oy) :
                   d \in Directions}
          \cup {At(NewEnemy(1, "chasing", EnemySize), ox, oy),
                At(NewEnemy(1, "fencing", EnemySize), ox, oy)}
          \cup {At([NewEnemy(1, "teleporting", EnemySize) EXCEPT !.counter = c], ox, oy) :
                   c \in {0, TeleportCooldown - 1}}
          : ox \in NearOffsets, oy \in {-10, -9, 0, 10, 11}}

EnemyTeleDraws ==
    {[choice |-> "player", ox |-> 10, oy |-> 0],
     [choice |-> "player", ox |-> -9, oy |-> 9],
     [choice |-> "home", ox |-> -5, oy |-> 0],
     [choice |-> "home", ox |-> 200, oy |-> -200]}

InitEnemy == InitSession(EnemyArenas, StartTimers, {<<e>> : e \in EnemyStarts})

NextEnemy == Animate(EnemyMaxTime, EnemyTeleDraws)

SpecEnemy == InitEnemy /\ [][NextEnemy]_vars

(* The player's point lies strictly inside the enemy's size-by-size square *)
(* centred on the enemy.                                                   *)
StrictlyInside(e, p) ==
    /\ Abs(2 * (p.x - e.x)) < e.size
    /\ Abs(2 * (p.y - e.y)) < e.size

(* C4: in every tick, each enemy variant signals the loss exactly when,    *)
(* after its move, the player is strictly inside its square: the number of *)
(* game_over_lose calls of the tick is the number of enemies whose moved   *)
(* square strictly contains the player.                                    *)
C4_HitIffStrictlyInside ==
    [][ticks' = ticks + 1 =>
          LoseCount' - LoseCount =
              Cardinality({i \in DOMAIN elements' :
                              StrictlyInside(elements'[i], player')})]_vars

(* C4 witness: after an update the player is exactly on the enemy's right  *)
(* edge, at (enemy.x + size/2, enemy.y), and the session is still Running. *)
C4_Witness ==
    /\ ticks >= 1
    /\ Running
    /\ \E i \in DOMAIN elements :
         /\ 2 * player.x = 2 * elements[i].x + elements[i].size
         /\ player.y = elements[i].y

----------------------------------------------------------------------------
(* SpecFence: the fencing chain alone (fencing enemies read only Home and  *)
(* the player, so the other chains do not change what they do).  The first *)
(* enemy's first draw ranges over the whole placement range.               *)

FenceArenas == {<<800, 500>>, <<165, 100>>, <<100, 100>>}

FenceRangeX == (home_x - MaxDistanceFromHome)..(home_x + MaxDistanceFromHome)
FenceRangeY == (home_y - MaxDistanceFromHome)..(home_y + MaxDistanceFromHome)

FenceFullTapes ==
    {<<>>}
    \cup {<<Pt(x, y)>> \o Fill(Pt(home_x + 11, home_y - 25), n) :
             x \in FenceRangeX, y \in FenceRangeY, n \in {NumFencing - 1, NumFencing}}

FenceTimers == {[at |-> FencingDelay, cb |-> "fencing", seq |-> 3]}

InitFence == InitSession(FenceArenas, StartTimers \cup FenceTimers, {<<>>})

NextFence ==
    \/ Animate(FenceMaxTime, SessionTeleDraws)
    \/ CreateFencingEnemy(FenceMaxTime, FenceFullTapes)

SpecFence == InitFence /\ [][NextFence]_vars

(* C7: every FencingEnemy that create_fencing_enemy registers starts at a  *)
(* position outside Home's closed region.                                  *)
C7_FenceStartsOutsideHome ==
    [][\A i \in DOMAIN elements' :
          (i > Len(elements) /\ elements'[i].kind = "fencing")
              => ~InHomeRegion(elements'[i].x, elements'[i].y)]_vars

(* C7 witness: the callback has registered its 15 enemies, one of them on  *)
(* the grid point next to Home's right edge.                               *)
C7_Witness ==
    /\ Cardinality(EnemiesOfKind("fencing")) = NumFencing
    /\ ticks * TickMs <= FencingDelay
    /\ \E i \in OfKind("fencing") :
         /\ elements[i].x = home_x + HomeSize \div 2 + 1
         /\ elements[i].y = home_y

(* C8: a FencingEnemy is always inside the closed square of side 80        *)
(* centred on Home.                                                        *)
C8_FenceInsideSquare ==
    \A i \in OfKind("fencing") :
        /\ Abs(2 * (elements[i].x - home_x)) <= SquareSize
        /\ Abs(2 * (elements[i].y - home_y)) <= SquareSize

----------------------------------------------------------------------------
(* SpecPlayer: the player, the pointer and the tick loop; no spawn chain   *)
(* is armed.                                                               *)

PlayerArenas == {<<800, 500>>, <<165, 100>>}

PlayerClicks ==
    {Pt(PlayerStartX + 3, home_y), Pt(PlayerStartX + 7, home_y),
     Pt(PlayerStartX + 5, home_y), Pt(PlayerStartX, home_y),
     Pt(PlayerStartX - 10, home_y), Pt(PlayerStartX + 30, home_y + 40),
     Pt(PlayerStartX + 2, home_y - 6), Pt(home_x, home_y)}

InitPlayer == InitSession(PlayerArenas, StartTimers, {<<>>})

NextPlayer ==
    \/ Animate(PlayerMaxTime, SessionTeleDraws)
    \/ Click(PlayerClicks)

SpecPlayer == InitPlayer /\ [][NextPlayer]_vars

(* C10: a tick with an active waypoint and the player outside Home first   *)
(* advances the player by `speed` toward the waypoint and then deactivates *)
(* the waypoint iff the distance left after the move is less than `speed`; *)
(* from 3 short of the waypoint on the x axis the player ends 2 beyond it  *)
(* with the waypoint inactive.                                             *)
C10_MoveThenCheck ==
    [][(ticks' = ticks + 1 /\ waypoint.active /\ ~InHomeRegion(player.x, player.y)) =>
          /\ player' = forward(player, waypoint.x, waypoint.y, PlayerSpeed)
          /\ waypoint'.x = waypoint.x /\ waypoint'.y = waypoint.y
          /\ waypoint'.active =
                 (Dist2(player'.x, player'.y, waypoint.x, waypoint.y)
                      >= PlayerSpeed * PlayerSpeed)
          /\ (waypoint.x = player.x + 3 /\ waypoint.y = player.y)
                 => (/\ player'.x = player.x + 5
                     /\ player'.y = player.y
                     /\ ~waypoint'.active)]_vars

(* C10 witness: the waypoint was 7 ahead of the start, so the test before  *)
(* the move (7 >= 5) and the test after it (2 < 5) differ: the player has  *)
(* made its one step and the waypoint is inactive.                         *)
C10_Witness ==
    /\ player = Pt(PlayerStartX + 5, home_y)
    /\ waypoint = [x |-> PlayerStartX + 7, y |-> home_y, active |-> FALSE]
    /\ Running

(* C11: a tick that finds the player inside Home's closed region signals   *)
(* the win and changes neither the player's position nor the waypoint's    *)
(* active flag in that same update, also when the waypoint is active.      *)
C11_WinFreezesPlayer ==
    [][(ticks' = ticks + 1 /\ InHomeRegion(player.x, player.y)) =>
          /\ player' = player
          /\ waypoint'.active = waypoint.active]_vars

----------------------------------------------------------------------------
(* Further properties of the full session (Spec).                          *)

(* C12: every RandomWalkEnemy, ChasingEnemy and TeleportingEnemy that a    *)
(* spawn callback adds is placed inside the arena, 0 <= x <= screen_width  *)
(* and 0 <= y <= screen_height, whatever the arena's size.                 *)
C12_SpawnInsideArena ==
    [][\A i \in DOMAIN elements' :
          (i > Len(elements)
             /\ elements'[i].kind \in {"random", "chasing", "teleporting"})
              => /\ 0 <= elements'[i].x /\ elements'[i].x <= screen_width
                 /\ 0 <= elements'[i].y /\ elements'[i].y <= screen_height]_vars

----------------------------------------------------------------------------
(* SpecSchedule: the session with the pointer idle and every enemy placed  *)
(* far from the player, so that it stays Running past several periods of   *)
(* every chain.                                                            *)

ScheduleArenas == {<<800, 500>>, <<1000, 600>>}

ScheduleWalkDraws == {[x |-> 10, y |-> 200, direction |-> "left"]}

ScheduleChaseDraws == {Pt(0, 0)}

ScheduleFenceTapes == {Fill(Pt(home_x - 25, home_y), NumFencing)}

InitSchedule == InitSession(ScheduleArenas, StartTimers \cup GeneratorTimers, {<<>>})

NextSchedule ==
    \/ Animate(ScheduleMaxTime, SessionTeleDraws)
    \/ CreateRandomEnemy(ScheduleMaxTime, ScheduleWalkDraws)
    \/ CreateChasingEnemy(ScheduleMaxTime, ScheduleChaseDraws)
    \/ CreateFencingEnemy(ScheduleMaxTime, ScheduleFenceTapes)
    \/ CreateTeleportingEnemy(ScheduleMaxTime, SessionTeleTapes)

SpecSchedule == InitSchedule /\ [][NextSchedule]_vars

(* The chain of callback cb has fired k times, each firing adding `each`   *)
(* instances of `kind`, and its next firing is pending for                 *)
(* first + k * period, which has not passed.                               *)
ChainAt(cb, kind, first, period, each) ==
    \E t \in timers :
        /\ t.cb = cb
        /\ t.at >= now
        /\ \E k \in 0..(ScheduleMaxTime \div period + 1) :
              /\ t.at = first + k * period
              /\ Cardinality(OfKind(kind)) = k * each

(* C13: while Running the chains fire on this schedule: a RandomWalkEnemy  *)
(* at 1000 ms and every 1000 ms after, a ChasingEnemy at 2000 ms and every *)
(* 1000 ms after, five TeleportingEnemy at 4000 ms and every 500 ms after, *)
(* and the fencing callback once, at 3000 ms, with 15 spawns: there is no  *)
(* FencingEnemy before 3000 ms and there are exactly 15 at any later time. *)
C13_TimerSchedule ==
    Running =>
      /\ ChainAt("random", "random", RandomDelay, RandomPeriod, 1)
      /\ ChainAt("chasing", "chasing", ChasingDelay, ChasingPeriod, 1)
      /\ ChainAt("teleporting", "teleporting", TeleportingDelay, TeleportingPeriod,
                 NumTeleporting)
      /\ \A t \in timers :
            t.cb = "fencing" => (t.at = FencingDelay /\ t.at >= now)
      /\ Cardinality(OfKind("fencing")) =
            IF \E t \in timers : t.cb = "fencing" THEN 0 ELSE NumFencing
      /\ now < FencingDelay => OfKind("fencing") = {}
      /\ now > FencingDelay => Cardinality(OfKind("fencing")) = NumFencing

(* C13 witness: 5000 ms have elapsed in a Running session: five random     *)
(* walkers, four chasers, the 15 fencing enemies and three batches of five *)
(* teleporting enemies.                                                    *)
C13_Witness ==
    /\ Running
    /\ Elapsed(5000)
    /\ Cardinality(OfKind("random")) = 5
    /\ Cardinality(OfKind("chasing")) = 4
    /\ Cardinality(OfKind("fencing")) = NumFencing
    /\ Cardinality(OfKind("teleporting")) = 3 * NumTeleporting

----------------------------------------------------------------------------
(* Further properties of the fencing chain (SpecFence).                    *)

(* The sides of the patrol square as the specification states them.        *)
PatrolLeft == home_x - SquareSize \div 2
PatrolRight == home_x + SquareSize \div 2
PatrolTop == home_y - SquareSize \div 2
PatrolBottom == home_y + SquareSize \div 2

(* One update of a FencingEnemy from e to f: a step of the patrol speed    *)
(* along its direction or, when `reaches` holds, onto `side` with the new  *)
(* direction `turn`; the other coordinate is kept.                         *)
PatrolStep(e, f, reaches, side, turn) ==
    LET horizontal == e.direction \in {"left", "right"}
        step == IF e.direction \in {"right", "down"} THEN FenceSpeed ELSE -FenceSpeed
    IN  /\ IF horizontal THEN f.y = e.y ELSE f.x = e.x
        /\ IF reaches
           THEN /\ f.direction = turn
                /\ (IF horizontal THEN f.x ELSE f.y) = side
           ELSE /\ f.direction = e.direction
                /\ (IF horizontal THEN f.x = e.x + step ELSE f.y = e.y + step)

(* C14: a FencingEnemy starts with direction right, and its direction      *)
(* changes only along right, down, left, up, right: a change happens       *)
(* exactly in the update in which the enemy reaches or would pass the side *)
(* it is heading for, and that update puts its coordinate on that side.    *)
C14_PatrolCycle ==
    [][/\ \A i \in DOMAIN elements' :
            (i > Len(elements) /\ elements'[i].kind = "fencing")
                => elements'[i].direction = "right"
       /\ ticks' = ticks + 1 =>
            \A i \in OfKind("fencing") :
                LET e == elements[i]
                    f == elements'[i]
                IN  CASE e.direction = "right" ->
                           PatrolStep(e, f, e.x + FenceSpeed >= PatrolRight,
                                      PatrolRight, "down")
                      [] e.direction = "down" ->
                           PatrolStep(e, f, e.y + FenceSpeed >= PatrolBottom,
                                      PatrolBottom, "left")
                      [] e.direction = "left" ->
                           PatrolStep(e, f, e.x - FenceSpeed <= PatrolLeft,
                                      PatrolLeft, "up")
                      [] e.direction = "up" ->
                           PatrolStep(e, f, e.y - FenceSpeed <= PatrolTop,
                                      PatrolTop, "right")
                      [] OTHER -> FALSE]_vars

(* C14 witness: a FencingEnemy spawned 29 short of the right side (a       *)
(* distance the step does not divide) has gone once round the square and   *)
(* made its first step along the top side, heading right again.            *)
C14_Witness ==
    /\ Running
    /\ \E i \in OfKind("fencing") :
         /\ elements[i].direction = "right"
         /\ elements[i].y = PatrolTop
         /\ elements[i].x = PatrolLeft + FenceSpeed

----------------------------------------------------------------------------
(* SpecTeleport: one TeleportingEnemy, handed to add_enemy before the      *)
(* first tick, and a player that an early click may set walking, over two  *)
(* cooldowns.                                                              *)

TeleportArenas == {<<800, 500>>}

TeleportStarts ==
    {[NewEnemy(1, "teleporting", EnemySize) EXCEPT !.x = 400, !.y = 100]}

TeleportDraws ==
    {[choice |-> "player", ox |-> TeleportRange, oy |-> -TeleportRange],
     [choice |-> "home", ox |-> -TeleportRange, oy |-> TeleportRange],
     [choice |-> "player", ox |-> -3, oy |-> 0]}

TeleportClicks == {Pt(home_x, home_y)}

InitTeleport ==
    InitSession(TeleportArenas, StartTimers, {<<e>> : e \in TeleportStarts})

(* A click made in the first ClickMaxTime ms of the session.               *)
ClickEarly(Points) == now <= ClickMaxTime /\ Click(Points)

NextTeleport ==
    \/ Animate(TeleportMaxTime, TeleportDraws)
    \/ ClickEarly(TeleportClicks)

SpecTeleport == InitTeleport /\ [][NextTeleport]_vars

(* C15: a TeleportingEnemy present from the first tick teleports exactly   *)
(* on its 60th, 120th, ... update: after its n-th update the counter is    *)
(* n mod 60 (reset to 0 by the teleporting update, always in 0..59), an    *)
(* update that is not a multiple of 60 leaves its position unchanged, and  *)
(* a teleporting update puts it within 200 on each axis of the player's    *)
(* position at that moment or of Home's position.                          *)
C15_TeleportEvery60 ==
    [][ticks' = ticks + 1 =>
          \A i \in OfKind("teleporting") :
              LET e == elements[i]
                  f == elements'[i]
                  n == ticks'
                  Near(cx, cy) == /\ Abs(f.x - cx) <= TeleportRange
                                  /\ Abs(f.y - cy) <= TeleportRange
              IN  /\ f.counter = n % TeleportCooldown
                  /\ f.counter \in 0..(TeleportCooldown - 1)
                  /\ n % TeleportCooldown # 0 => (f.x = e.x /\ f.y = e.y)
                  /\ n % TeleportCooldown = 0 =>
                        (Near(player'.x, player'.y) \/ Near(home_x, home_y))]_vars

(* C15 witness: the 120th update has teleported the enemy to the far       *)
(* corner of the +-200 range around a player who is walking.               *)
C15_Witness ==
    /\ Running
    /\ ticks = 2 * TeleportCooldown
    /\ clicks = 1
    /\ player.x > PlayerStartX
    /\ \E i \in OfKind("teleporting") :
         /\ elements[i].counter = 0
         /\ elements[i].x = player.x + TeleportRange
         /\ elements[i].y = player.y - TeleportRange

----------------------------------------------------------------------------
(* Further properties of the player (SpecPlayer).                          *)

(* C16: a tick with the waypoint inactive and the player outside Home      *)
(* changes nothing: not the player's position, not the waypoint's position *)
(* or active flag, not the session state.                                  *)
C16_IdleTickChangesNothing ==
    [][(ticks' = ticks + 1 /\ ~waypoint.active /\ ~InHomeRegion(player.x, player.y)) =>
          /\ player' = player
          /\ waypoint' = waypoint
          /\ banners' = banners
          /\ is_started' = is_started]_vars

(* C16 witness: ticks have run with the waypoint never activated, and the  *)
(* player is where it started, the session Running.                        *)
C16_Witness ==
    /\ ticks >= 2
    /\ clicks = 0
    /\ Running /\ is_started
    /\ player = Pt(PlayerStartX, home_y)
    /\ waypoint = [x |-> DefaultX, y |-> DefaultY, active |-> FALSE]

----------------------------------------------------------------------------
(* Further properties of the single enemy (SpecEnemy).                     *)

(* The move (mx, my) is a step of length `speed` along (dx, dy), to the    *)
(* nearest grid point: exact on an axis; otherwise it points the same way, *)
(* deviates from the line by at most half a cell on each axis, and its     *)
(* length is within half a cell's diagonal of `speed`.                     *)
StepAlong(mx, my, dx, dy, speed) ==
    /\ dy = 0 => (mx = speed * Sign(dx) /\ my = 0)
    /\ dx = 0 => (my = speed * Sign(dy) /\ mx = 0)
    /\ mx * dx + my * dy > 0
    /\ 2 * Abs(mx * dy - my * dx) <= Abs(dx) + Abs(dy)
    /\ 2 * (mx * mx + my * my) >= 2 * speed * speed - 3 * speed + 1
    /\ 2 * (mx * mx + my * my) <= 2 * speed * speed + 3 * speed + 1

(* C17: a ChasingEnemy that stands exactly on the player makes no move in  *)
(* its update and still runs the hit test (which signals the loss); in     *)
(* every other case it advances by its speed 4 along the direction to the  *)
(* player's current position, and then runs the hit test.                  *)
C17_ChaseStep ==
    [][ticks' = ticks + 1 =>
          \A i \in OfKind("chasing") :
              LET e == elements[i]
                  f == elements'[i]
                  dx == player'.x - e.x
                  dy == player'.y - e.y
              IN  /\ IF dx = 0 /\ dy = 0
                     THEN f.x = e.x /\ f.y = e.y
                     ELSE StepAlong(f.x - e.x, f.y - e.y, dx, dy, ChaseSpeed)
                  /\ LoseCount' - LoseCount =
                         IF StrictlyInside(f, player') THEN 1 ELSE 0]_vars

(* C17 witness: the update of a ChasingEnemy on the player's own position  *)
(* has run: the enemy is still there and the loss is signalled.            *)
C17_Witness ==
    /\ ticks = 1
    /\ LoseCount = 1
    /\ \E i \in OfKind("chasing") :
         elements[i].x = player.x /\ elements[i].y = player.y

----------------------------------------------------------------------------
(* SpecSize: a caller constructs enemies of any variant and any integer    *)
(* size and hands them to add_enemy while the tick loop runs.              *)

SizeArenas == {<<165, 100>>}

Sizes == {-4, 0, EnemySize}

(* Enemy(game, size, color) of some variant, then game.add_enemy(enemy);   *)
(* d is the direction a RandomWalkEnemy draws in create().                 *)
ConstructEnemy(SizeSet) ==
    /\ created < MaxAdded
    /\ \E kind \in Kinds, size \in SizeSet, d \in Directions :
         LET e0 == NewEnemy(created + 1, kind, size)
             e1 == IF kind = "random" THEN choose_random_direction(e0, d) ELSE e0
         IN  SetRegistry(add_enemy([Registry EXCEPT !.created = @ + 1], e1))
    /\ UNCHANGED <<now, timers, armed>>
    /\ SpawnFrame

InitSize == InitSession(SizeArenas, StartTimers, {<<>>})

NextSize ==
    \/ Animate(EnemyMaxTime, SessionTeleDraws)
    \/ ConstructEnemy(Sizes)

SpecSize == InitSize /\ [][NextSize]_vars

(* C18: every enemy of the session has size > 0: an enemy constructed with *)
(* a zero or negative size is rejected or its size is clamped, so none     *)
(* with a non-positive size is ever among the session's enemies.           *)
C18_PositiveSize ==
    \A i \in DOMAIN elements : elements[i].size > 0

----------------------------------------------------------------------------
(* The enemy collection in the full session (Spec).                        *)

(* C19: `enemies` is append-only: no tick, click, spawn callback or        *)
(* game-over operation removes or reorders an entry, and add_enemy puts    *)
(* the new enemy at the end, so the collection before any step is a prefix *)
(* of the collection after it.                                             *)
C19_EnemiesAppendOnly ==
    [][/\ Len(enemies') >= Len(enemies)
       /\ \A k \in DOMAIN enemies : enemies'[k] = enemies[k]]_vars

(* C19 witness: past the fencing callback, with enemies of three chains    *)
(* registered one after another, the session has ended and the collection  *)
(* is still whole.                                                         *)
C19_Witness ==
    /\ ~Running
    /\ Len(enemies) > NumFencing + 1
    /\ EnemiesOfKind("chasing") # {}
    /\ EnemiesOfKind("teleporting") # {}

----------------------------------------------------------------------------
(* SpecPlayerLive: the player and the pointer with a tick loop that keeps  *)
(* running: while the loop is started its next tick is always armed, and   *)
(* the event loop runs an armed tick (weak fairness of the tick).  Clicks  *)
(* come early enough for the walk to end before the horizon.  In the      *)
(* wider arena Home is out of the walks' reach; in the narrow one the      *)
(* player's first step east already touches Home.                          *)

LiveArenas == {<<400, 200>>, <<165, 100>>}

LiveClicks ==
    {Pt(PlayerStartX, home_y), Pt(PlayerStartX + 3, home_y),
     Pt(PlayerStartX + 5, home_y), Pt(PlayerStartX + 7, home_y),
     Pt(PlayerStartX - 10, home_y), Pt(PlayerStartX + 15, home_y),
     Pt(PlayerStartX + 30, home_y + 40), Pt(PlayerStartX + 2, home_y - 6)}

InitLive == InitSession(LiveArenas, StartTimers, {<<>>})

TickLive == Animate(LiveMaxTime, SessionTeleDraws)

NextLive ==
    \/ TickLive
    \/ ClickEarly(LiveClicks)

SpecPlayerLive == InitLive /\ [][NextLive]_vars /\ WF_vars(TickLive)

(* C20: once the waypoint is active, if the session stays Running and the  *)
(* pointer stays idle, the waypoint becomes inactive after finitely many   *)
(* ticks, from every start distance, 0 and less than the speed included.   *)
C20_WaypointEventuallyInactive ==
    waypoint.active ~> (~waypoint.active \/ ~Running)

(* C20 witness: the click was on the player's own position (distance 0):   *)
(* the player stepped away and back, and the waypoint is now inactive with *)
(* the session Running.                                                    *)
C20_Witness ==
    /\ Running
    /\ clicks = 1
    /\ ticks >= 2
    /\ player = Pt(PlayerStartX, home_y)
    /\ waypoint = [x |-> PlayerStartX, y |-> home_y, active |-> FALSE]

----------------------------------------------------------------------------
(* SpecReroll: create_fencing_enemy run step by step.  The callback runs   *)
(* to completion inside the event loop, so no tick is taken while it is    *)
(* placing an enemy.  Its steps are taken when they can be (weak fairness  *)
(* of the registering step), and the draws are fair: a re-roll that lands  *)
(* outside Home is not avoided for ever (weak fairness of that re-roll,    *)
(* which stays possible for as long as the loop runs).                     *)

RerollArenas == {<<800, 500>>, <<165, 100>>, <<100, 100>>, <<100, 10>>}

(* The random.randint draws: Home's centre, a corner of Home's closed      *)
(* region, and the grid point next to Home's right edge.                   *)
RerollDraws ==
    {Pt(home_x, home_y),
     Pt(home_x + HomeSize \div 2, home_y - HomeSize \div 2),
     Pt(home_x + HomeSize \div 2 + 1, home_y)}

InPlacementRange(d) ==
    /\ InRange(d.x, home_x - MaxDistanceFromHome, home_x + MaxDistanceFromHome)
    /\ InRange(d.y, home_y - MaxDistanceFromHome, home_y + MaxDistanceFromHome)

(* Lines 329-332: FencingEnemy(...) and the guarded first placement; the   *)
(* set of enemies the draws in Draws can give.                             *)
FencePlaced(id, Draws) ==
    LET e0 == NewEnemy(id, "fencing", EnemySize)
    IN  IF e0.x # home_x /\ e0.y # home_y
        THEN {[e0 EXCEPT !.x = d.x, !.y = d.y] : d \in {c \in Draws : InPlacementRange(c)}}
        ELSE {e0}

PlaceFrame ==
    UNCHANGED <<screen_width, screen_height, armed, is_started, banners, player,
                waypoint, ticks, clicks>>

(* The timer fires: the first pass of `for i in range(15)` up to the while. *)
FenceBegin(limit, Draws) ==
    /\ placing.i = 0
    /\ \E t \in timers :
         /\ Due(t, "fencing", limit)
         /\ now' = t.at
         /\ timers' = timers \ {t}
    /\ \E e \in FencePlaced(created + 1, Draws) :
         placing' = [placing EXCEPT !.i = 1, !.e = <<e>>]
    /\ created' = created + 1
    /\ UNCHANGED <<elements, enemies>>
    /\ PlaceFrame

(* One pass of `while home.contains(x, y)`: a new placement is drawn.      *)
FenceRerollTo(Draws) ==
    /\ placing.i \in 1..NumFencing
    /\ contains(placing.e[1].x, placing.e[1].y)
    /\ \E d \in Draws :
         /\ InPlacementRange(d)
         /\ placing' = [placing EXCEPT !.e = <<[placing.e[1] EXCEPT !.x = d.x, !.y = d.y]>>,
                                       !.rerolled = TRUE]
    /\ UNCHANGED <<now, timers, elements, enemies, created>>
    /\ PlaceFrame

(* The re-rolls whose draw is outside Home.                                *)
FenceRerollOutside(Draws) ==
    FenceRerollTo({d \in Draws : ~contains(d.x, d.y)})

(* The while loop is left: add_enemy, then the next pass of the for loop   *)
(* up to its while, or the return after the 15th enemy.                    *)
FenceRegister(Draws) ==
    /\ placing.i \in 1..NumFencing
    /\ ~contains(placing.e[1].x, placing.e[1].y)
    /\ LET g == add_enemy(Registry, placing.e[1])
       IN  elements' = g.elements /\ enemies' = g.enemies
    /\ IF placing.i < NumFencing
       THEN /\ \E e \in FencePlaced(created + 1, Draws) :
                 placing' = [placing EXCEPT !.i = @ + 1, !.e = <<e>>]
            /\ created' = created + 1
       ELSE /\ placing' = [placing EXCEPT !.i = @ + 1, !.e = <<>>]
            /\ created' = created
    /\ UNCHANGED <<now, timers>>
    /\ PlaceFrame

(* A tick, taken only between callbacks.                                   *)
TickBetween(limit) ==
    /\ placing.i \notin 1..NumFencing
    /\ Animate(limit, SessionTeleDraws)

InitReroll == InitSession(RerollArenas, StartTimers \cup FenceTimers, {<<>>})

NextReroll ==
    \/ TickBetween(RerollMaxTime)
    \/ FenceBegin(RerollMaxTime, RerollDraws)
    \/ FenceRerollTo(RerollDraws)
    \/ FenceRegister(RerollDraws)

SpecReroll ==
    /\ InitReroll
    /\ [][NextReroll]_vars
    /\ WF_vars(FenceRegister(RerollDraws))
    /\ WF_vars(FenceRerollOutside(RerollDraws))

(* C21: under fair draws the re-roll loop of create_fencing_enemy ends for *)
(* each of the 15 enemies: once the callback has started it returns, and   *)
(* it does so within the one firing at 3000 ms, having registered exactly  *)
(* 15 FencingEnemy (enemy i is placed after i - 1 are registered).         *)
C21_RerollTerminates ==
    /\ (placing.i \in 1..NumFencing) ~> (placing.i = NumFencing + 1)
    /\ [](placing.i \in 1..NumFencing =>
            /\ now = FencingDelay
            /\ Cardinality(EnemiesOfKind("fencing")) = placing.i - 1)
    /\ [](placing.i = NumFencing + 1 =>
            /\ Cardinality(OfKind("fencing")) = NumFencing
            /\ Cardinality(EnemiesOfKind("fencing")) = NumFencing
            /\ \A t \in timers : t.cb # "fencing")

(* C21 witness: the callback has returned after re-rolling at least one    *)
(* placement, in the arena where every enemy starts inside Home without a  *)
(* first draw; the 15 enemies are registered, all outside Home.            *)
C21_Witness ==
    /\ placing.i = NumFencing + 1
    /\ placing.rerolled
    /\ home_x = DefaultX
    /\ now = FencingDelay
    /\ Cardinality(EnemiesOfKind("fencing")) = NumFencing
    /\ \A i \in OfKind("fencing") : ~InHomeRegion(elements[i].x, elements[i].y)

====
